---- MODULE Spec2Model ----
(***************************************************************************)
(* A model of finetune.ipynb: the notebook that scores a pretrained        *)
(* sentiment classifier on product reviews, splits the dataset, tokenizes  *)
(* it, fine-tunes the classifier and saves it.                             *)
(*                                                                         *)
(* Every code cell is one action, run in notebook order.  No cell catches  *)
(* an exception, so a cell that raises ends the run (Raise).  The library  *)
(* calls the cells make (datasets.train_test_split, the tokenizer, pandas, *)
(* transformers.Trainer) are modelled by what they do with the arguments   *)
(* the cells pass.                                                         *)
(*                                                                         *)
(* Abstractions:                                                           *)
(*   - a text is the sequence of word pieces the tokenizer cuts it into;   *)
(*   - model weights are named by the optimizer step that produced them    *)
(*     (0: the pretrained weights);                                        *)
(*   - numpy's PCG64 generator is a small linear congruential generator:   *)
(*     like PCG64, its stream is a function of the seed and nothing else;  *)
(*   - floating point ratios are exact fractions <<num, den>>;             *)
(*   - the title column, which no cell reads, is left out of a record.     *)
(***************************************************************************)
EXTENDS Integers, Sequences, FiniteSets, TLC

VARIABLES
    pc,            \* the next cell to run, or "done" / "failed"
    fault,         \* the exception that ended the run, "none" otherwise
    trace,         \* the cells run so far, in order (history)
    kernel_names,  \* names bound in the kernel's namespace
    environ,       \* os.environ["LD_LIBRARY_PATH"]
    cuda,          \* torch.cuda.is_available()
    printed,       \* what the cells printed
    results,       \* results: the classifier's output, one entry per sentence
    df_test,       \* df_test: the evaluated slice of the test partition
    ds,            \* ds: split name -> rows
    orig,          \* the dataset as load_dataset returned it (history)
    results_df,    \* results_df
    accuracy,      \* accuracy
    accuracy_df,   \* accuracy_df
    trainer,       \* trainer: its arguments and TrainerState
    model,         \* the weights the model object holds
    f1_test,       \* f1_test
    disk,          \* what save_model and the checkpoints wrote, per path
    split_src,     \* splitter alone: the source train partition
    split_runs,    \* splitter alone: the assignment each run produced
    entropy,       \* splitter alone: each run's operating-system entropy
    cnt_in,        \* splitter sizes alone: rows per label of the source
    cnt_out,       \* splitter sizes alone: rows per label of each partition
    tok_text,      \* tokenizer alone: the text
    tok_enc        \* tokenizer alone: its encoding

vars == <<pc, fault, trace, kernel_names, environ, cuda, printed, results,
          df_test, ds, orig, results_df, accuracy, accuracy_df, trainer, model, f1_test,
          disk, split_src, split_runs, entropy, cnt_in, cnt_out, tok_text,
          tok_enc>>

pipeline_vars == <<pc, fault, trace, kernel_names, environ, cuda, printed,
                   results, df_test, ds, orig, results_df, accuracy, accuracy_df,
                   trainer, model, f1_test, disk>>

split_vars == <<split_src, split_runs, entropy>>

count_vars == <<cnt_in, cnt_out>>

tok_vars == <<tok_text, tok_enc>>

(***************************************************************************)
(* Bounds of the model.                                                    *)
(***************************************************************************)
MaxTrain == 12      \* rows of the train partition the hub returns
MaxTest == 2        \* rows of the test partition the hub returns
MaxRows == 4        \* rows of a synthetic evaluation slice
MaxSplit == 11      \* rows of the source partition of the splitter alone
MaxCount == 40      \* rows of the source partition of the splitter sizes alone
MaxText == 515      \* word pieces of a text given to the tokenizer alone
MaxCkpt == 3        \* checkpoints a modelled training run reaches

(***************************************************************************)
(* Constants of the notebook.                                              *)
(***************************************************************************)
TestSizeNum == 1          \* test_size=0.1: the numerator of 1/10
TestSizeDen == 10         \* test_size=0.1: the denominator of 1/10
Seed == 42                \* seed=42
SliceRows == 10           \* ds["test"][:10]
MaxLength == 512          \* max_length=512
BatchSize == 32           \* per_device_train_batch_size=32
NumTrainEpochs == 1       \* num_train_epochs=1
SaveTotalLimit == 2       \* save_total_limit = 2
SaveSteps == 500          \* save_strategy = "steps": every save_steps, 500 when not given
EvalSteps == 500          \* evaluation_strategy = "steps": every eval_steps, 500 when not given
NumLabels == 2            \* num_labels=2

ArtifactPath == "/mnt/artifacts/amazon-sentiment/"
OutputDir == "temp/"

Labels == 0 .. (NumLabels - 1)

\* id2label={0: "negative", 1: "positive"}
id2label == [l \in Labels |-> IF l = 0 THEN "negative" ELSE "positive"]

LabelNames == {id2label[l] : l \in Labels}

(***************************************************************************)
(* Helpers.                                                                *)
(***************************************************************************)
Range(s) == {s[i] : i \in DOMAIN s}

RECURSIVE SumOver(_, _)
SumOver(f, S) ==
    IF S = {} THEN 0
    ELSE LET x == CHOOSE y \in S : TRUE IN f[x] + SumOver(f, S \ {x})

CeilDiv(a, b) == (a + b - 1) \div b

Min(a, b) == IF a <= b THEN a ELSE b

\* The elements of a set of integers in increasing order (np.unique, sorted()).
RECURSIVE SortedSeq(_)
SortedSeq(S) ==
    IF S = {} THEN <<>>
    ELSE LET m == CHOOSE x \in S : \A y \in S : x <= y
         IN <<m>> \o SortedSeq(S \ {m})

\* The subsequence of s at the positions idx, in the order of idx (Dataset.select).
Select(s, idx) == [k \in 1 .. Len(idx) |-> s[idx[k]]]

(***************************************************************************)
(* numpy.random.default_rng(seed): a generator whose stream depends on the *)
(* seed alone.                                                             *)
(***************************************************************************)
RngSeed(seed) == seed % 65536

RngStep(s) == (s * 25173 + 13849) % 65536

\* An integer of 0 .. k-1 drawn in state s.
RngBelow(s, k) == (s \div 16) % k

\* rng.permutation(xs): the shuffled sequence and the generator's next state.
RECURSIVE Shuffle(_, _, _)
Shuffle(xs, i, s) ==
    IF i <= 1 THEN [seq |-> xs, rng |-> s]
    ELSE LET s1 == RngStep(s)
             j == 1 + RngBelow(s1, i)
             sw == [xs EXCEPT ![i] = xs[j], ![j] = xs[i]]
         IN Shuffle(sw, i - 1, s1)

Permutation(xs, s) == Shuffle(xs, Len(xs), s)

(***************************************************************************)
(* datasets.Dataset.train_test_split(test_size=0.1, seed=42,               *)
(* stratify_by_column="label"), as cell 13 calls it.                       *)
(***************************************************************************)
\* approximate_mode: the remainders, largest first, each handing out one more
\* row per class until n_draws rows are placed; a tie is broken by rng.choice.
RECURSIVE AddRemainders(_, _, _, _, _, _)
AddRemainders(values, k, floored, need, rem, s) ==
    IF k > Len(values) \/ need = 0 THEN [n |-> floored, rng |-> s]
    ELSE LET inds == SortedSeq({c \in DOMAIN rem : rem[c] = values[k]})
             add_now == Min(Len(inds), need)
             p == Permutation(inds, s)
             chosen == {p.seq[i] : i \in 1 .. add_now}
             added == [c \in DOMAIN floored |->
                          floored[c] + (IF c \in chosen THEN 1 ELSE 0)]
         IN AddRemainders(values, k + 1, added, need - add_now, rem, p.rng)

Reverse(s) == [i \in 1 .. Len(s) |-> s[Len(s) + 1 - i]]

ApproximateMode(class_counts, n_draws, s) ==
    LET total == SumOver(class_counts, DOMAIN class_counts)
        floored == [c \in DOMAIN class_counts |->
                       (class_counts[c] * n_draws) \div total]
        rem == [c \in DOMAIN class_counts |->
                   (class_counts[c] * n_draws) % total]
        need == n_draws - SumOver(floored, DOMAIN class_counts)
        values == Reverse(SortedSeq({rem[c] : c \in DOMAIN rem}))
    IN IF need > 0 THEN AddRemainders(values, 1, floored, need, rem, s)
       ELSE [n |-> floored, rng |-> s]

\* TestRows rounded down instead of up.
TestRowsFloor(n) == (TestSizeNum * n) \div TestSizeDen

\* The sizes of the two partitions: n_test = ceil(test_size * n), and the
\* train partition takes the rest (train_size is not given).
TestRows(n) == CeilDiv(TestSizeNum * n, TestSizeDen)

TrainRows(n) == n - TestRows(n)

\* The rows per class of each partition: the train rows are placed first, the
\* test rows are drawn from what each class has left.
CountsResult(n, t_i) == [ok |-> TRUE, n_i |-> n, t_i |-> t_i.n, rng |-> t_i.rng]

CountsAfterTrain(class_counts, n_test, n_i) ==
    CountsResult(n_i.n,
        ApproximateMode([c \in DOMAIN class_counts |-> class_counts[c] - n_i.n[c]],
                        n_test, n_i.rng))

\* The rows per class of each partition, or the ValueError the splitter raises:
\* an empty train partition, a class of one row, fewer rows than classes.
StratifiedCounts(class_counts, n_train, n_test, s) ==
    IF n_train = 0 THEN [ok |-> FALSE]
    ELSE IF \E c \in DOMAIN class_counts : class_counts[c] < 2 THEN [ok |-> FALSE]
    ELSE IF n_train < Cardinality(DOMAIN class_counts) THEN [ok |-> FALSE]
    ELSE IF n_test < Cardinality(DOMAIN class_counts) THEN [ok |-> FALSE]
    ELSE CountsAfterTrain(class_counts, n_test,
                          ApproximateMode(class_counts, n_train, s))

ClassCounts(y) ==
    [c \in Range(y) |-> Cardinality({i \in DOMAIN y : y[i] = c})]

\* One class after the other: its rows shuffled, the first n_i to train, the
\* next t_i to test.
RECURSIVE PerClass(_, _, _, _, _, _, _)
PerClass(classes, k, y, cnt, train, test, s) ==
    IF k > Len(classes) THEN [train |-> train, test |-> test, rng |-> s]
    ELSE LET c == classes[k]
             class_indices == SortedSeq({i \in DOMAIN y : y[i] = c})
             p == Permutation(class_indices, s)
             n == cnt.n_i[c]
             t == cnt.t_i[c]
         IN PerClass(classes, k + 1, y, cnt,
                     train \o SubSeq(p.seq, 1, n),
                     test \o SubSeq(p.seq, n + 1, n + t), p.rng)

\* train = rng.permutation(train); test = rng.permutation(test)
ShuffleTest(tr, test) ==
    [ok |-> TRUE, train |-> tr.seq, test |-> Permutation(test, tr.rng).seq]

ShuffleParts(parts) == ShuffleTest(Permutation(parts.train, parts.rng), parts.test)

IndicesOf(y, cnt) ==
    IF ~cnt.ok THEN [ok |-> FALSE]
    ELSE ShuffleParts(PerClass(SortedSeq(Range(y)), 1, y, cnt, <<>>, <<>>, cnt.rng))

\* stratified_shuffle_split_generate_indices: the row indices of each partition.
StratifiedIndices(y, n_train, n_test, s) ==
    IndicesOf(y, StratifiedCounts(ClassCounts(y), n_train, n_test, s))

\* A generator seeded from the process's entropy (seed=None).
SplitGeneratorUnseeded(seed, os_entropy) == RngSeed(os_entropy)

\* The generator the splitter draws from: seeded with the seed it is given.
SplitGenerator(seed, os_entropy) == RngSeed(seed)

\* SelectRows that leaves the rows drawn for the test part in the train part.
SelectRowsKeepAll(rows, idx) ==
    IF ~idx.ok THEN [ok |-> FALSE]
    ELSE [ok |-> TRUE, train |-> rows, test |-> Select(rows, idx.test)]

\* Dataset.select on each index list.
SelectRows(rows, idx) ==
    IF ~idx.ok THEN [ok |-> FALSE]
    ELSE [ok |-> TRUE, train |-> Select(rows, idx.train),
          test |-> Select(rows, idx.test)]

LabelColumn(rows) == [i \in 1 .. Len(rows) |-> rows[i].label]

TrainTestSplit(rows, seed, os_entropy) ==
    SelectRows(rows,
        StratifiedIndices(LabelColumn(rows), TrainRows(Len(rows)),
                          TestRows(Len(rows)), SplitGenerator(seed, os_entropy)))

(***************************************************************************)
(* The classifier: nlp(sentences) returns one {label, score} per sentence. *)
(* What it predicts is not decided by the notebook: any output is possible.*)
(***************************************************************************)
Scores == {90}      \* a confidence, in percent; no cell reads it, one value stands for all

Predictions == [label : LabelNames, score : Scores]

NlpOutputs(n) == [1 .. n -> Predictions]

\* The four hand-written sentences of cell 7.
sentences == <<"towel", "colors", "damanged", "not sure">>

(***************************************************************************)
(* The scorer: cells 17, 19 and 21.                                        *)
(***************************************************************************)
\* df_test["label"].replace([0, 1], ["negative", "positive"])
ReplaceLabel(l) == IF l = 0 THEN "negative" ELSE IF l = 1 THEN "positive" ELSE l

\* Cell 17: the slice's text and label beside the prediction and its score, and
\* Correct, whether label and prediction are equal.
BuildResultsDf(test_rows, res) ==
    [i \in 1 .. Len(test_rows) |->
        [text |-> test_rows[i].text,
         label |-> ReplaceLabel(test_rows[i].label),
         pred |-> res[i].label,
         score |-> res[i].score,
         Correct |-> ReplaceLabel(test_rows[i].label) = res[i].label]]

\* round(): a / b rounded to the nearest integer, a tie to the even one.
RoundHalfEven(a, b) ==
    LET q == a \div b
        r == a % b
    IN IF 2 * r < b THEN q
       ELSE IF 2 * r > b THEN q + 1
       ELSE IF q % 2 = 0 THEN q ELSE q + 1

\* Cell 19: len(results_df[results_df["Correct"] == True]) / len(results_df).
\* Python raises ZeroDivisionError when the frame has no rows.
Accuracy(df) ==
    IF Len(df) = 0 THEN [ok |-> FALSE]
    ELSE [ok |-> TRUE,
          value |-> <<Cardinality({i \in DOMAIN df : df[i].Correct}), Len(df)>>]

\* "{:.2f}".format(x): x in hundredths.
Format2f(x) == RoundHalfEven(100 * x[1], x[2])

\* AccuracyDf grouped by the prediction instead of the label.
AccuracyDfByPred(df) ==
    {[Label |-> L,
      Count |-> Cardinality({i \in DOMAIN df : df[i].pred = L}),
      Accuracy |-> <<RoundHalfEven(
                        10000 * Cardinality({i \in DOMAIN df :
                                    df[i].pred = L /\ df[i].Correct}),
                        Cardinality({i \in DOMAIN df : df[i].pred = L})),
                     100>>]
     : L \in {df[i].pred : i \in DOMAIN df}}

\* AccuracyDf with a row for every category, a label that does not occur
\* getting the undefined mean 0/0.
AccuracyDfAllCategories(df) ==
    {[Label |-> L,
      Count |-> Cardinality({i \in DOMAIN df : df[i].label = L}),
      Accuracy |-> <<Cardinality({i \in DOMAIN df : df[i].label = L /\ df[i].Correct}),
                     Cardinality({i \in DOMAIN df : df[i].label = L})>>]
     : L \in LabelNames}

\* Cell 21: one row per label that occurs in the frame (value_counts and
\* groupby yield a group only for a value that occurs): the number of its rows
\* and the mean of Correct over them, times 100, rounded to two decimals.
\* Accuracy is a fraction <<hundredths of a percent, 100>>.
AccuracyDf(df) ==
    {[Label |-> L,
      Count |-> Cardinality({i \in DOMAIN df : df[i].label = L}),
      Accuracy |-> <<RoundHalfEven(
                        10000 * Cardinality({i \in DOMAIN df :
                                    df[i].label = L /\ df[i].Correct}),
                        Cardinality({i \in DOMAIN df : df[i].label = L})),
                     100>>]
     : L \in {df[i].label : i \in DOMAIN df}}

(***************************************************************************)
(* The tokenizer: cell 23.                                                 *)
(***************************************************************************)
Pad(n) == [i \in 1 .. n |-> "[PAD]"]

\* tokenizer(text, truncation, padding, max_length): the word pieces, cut so
\* that they and the two special tokens fit max_length, between [CLS] and
\* [SEP]; padded to max_length only when padding is "max_length".
Tokenizer(text, truncation, padding, max_length) ==
    LET budget == max_length - 2
        kept == IF truncation /\ Len(text) > budget
                THEN SubSeq(text, 1, budget) ELSE text
        ids == <<"[CLS]">> \o kept \o <<"[SEP]">>
        out == IF padding = "max_length" /\ Len(ids) < max_length
               THEN ids \o Pad(max_length - Len(ids)) ELSE ids
    IN [input_ids |-> out,
        attention_mask |-> [i \in 1 .. Len(out) |-> IF i <= Len(ids) THEN 1 ELSE 0]]

\* preprocess_function padding to the maximum length.
preprocess_function_padded(text) == Tokenizer(text, TRUE, "max_length", MaxLength)

\* preprocess_function(tokenizer, examples)
preprocess_function(text) == Tokenizer(text, TRUE, "False", MaxLength)

\* Dataset.map: the row with the fields the function returns added to it.
MapRow(row) ==
    LET enc == preprocess_function(row.text)
    IN [id |-> row.id, text |-> row.text, label |-> row.label,
        input_ids |-> enc.input_ids, attention_mask |-> enc.attention_mask]

(***************************************************************************)
(* The trainer: cells 25, 27, 29 and 31.                                   *)
(***************************************************************************)
F1Values == {0, 50, 100}    \* a weighted F1, in percent

Max(a, b) == IF a >= b THEN a ELSE b

\* len(train_dataloader): the batches of one epoch.
StepsPerEpoch(rows, n_gpu) == CeilDiv(rows, BatchSize * Max(1, n_gpu))

TotalSteps(rows, n_gpu) == NumTrainEpochs * StepsPerEpoch(rows, n_gpu)

\* The checkpoints a run of that many steps evaluates and saves.
NumCheckpoints(steps) == steps \div SaveSteps

\* metric_for_best_model="f1", greater_is_better: a checkpoint becomes the best
\* one when there is none yet or when its metric is greater than the best.
IsBetter(metric, best_metric, best_ckpt) ==
    best_ckpt = 0 \/ metric > best_metric

\* _rotate_checkpoints: the checkpoints in the order of their steps, the best
\* one moved before the last; all but the last save_total_limit are deleted.
RotateCheckpoints(ckpts, best) ==
    LET sorted == SortedSeq(ckpts)
        n == Len(sorted)
        others == SortedSeq(ckpts \ {best})
        order == IF best \in ckpts /\ n >= 2 /\ sorted[n] # best
                 THEN SubSeq(others, 1, n - 2) \o <<best>> \o <<sorted[n]>>
                 ELSE sorted
    IN {order[i] : i \in (Max(0, n - SaveTotalLimit) + 1) .. n}

\* The training loop up to its k-th checkpoint: evaluate, keep the best, save,
\* rotate.
RECURSIVE TrainLoop(_, _, _, _)
TrainLoop(k, nck, f1s, st) ==
    IF k > nck THEN st
    ELSE LET step == k * SaveSteps
             better == IsBetter(f1s[k], st.best_metric, st.best_model_checkpoint)
             best == IF better THEN step ELSE st.best_model_checkpoint
         IN TrainLoop(k + 1, nck, f1s,
                [best_metric |-> IF better THEN f1s[k] ELSE st.best_metric,
                 best_model_checkpoint |-> best,
                 evals |-> Append(st.evals, [step |-> step, f1 |-> f1s[k]]),
                 checkpoints |-> RotateCheckpoints(st.checkpoints \cup {step}, best)])

\* FinalWeights without the reload of the best checkpoint.
FinalWeightsLastStep(st, steps) == steps

\* load_best_model_at_end=True: the weights of the best checkpoint when there is
\* one, the weights of the last step otherwise.
FinalWeights(st, steps) ==
    IF st.best_model_checkpoint # 0 /\ st.best_model_checkpoint \in st.checkpoints
    THEN st.best_model_checkpoint ELSE steps

NoTrainer ==
    [bound |-> FALSE, train_rows |-> 0, eval_rows |-> 0, global_step |-> 0,
     best_metric |-> 0, best_model_checkpoint |-> 0, evals |-> <<>>]

NewTrainer(train_rows, eval_rows) ==
    [NoTrainer EXCEPT !.bound = TRUE, !.train_rows = train_rows,
                      !.eval_rows = eval_rows]

(***************************************************************************)
(* The notebook's cells.                                                   *)
(***************************************************************************)
CellOrder ==
    <<"imports", "cuda_env", "gpu_check", "baseline", "load_dataset", "split",
      "score_test", "results_df", "accuracy", "accuracy_df", "tokenize",
      "trainer_setup", "train", "predict", "save_model">>

Cells == Range(CellOrder)

CellIndex(c) == CHOOSE i \in DOMAIN CellOrder : CellOrder[i] = c

\* The cell after c, "done" after the last.
NextCell(c) ==
    IF CellIndex(c) = Len(CellOrder) THEN "done" ELSE CellOrder[CellIndex(c) + 1]

\* The names a cell binds in the kernel's namespace.
CellBinds(c) ==
    CASE c = "imports" ->
            {"partial", "os", "torch", "argparse", "np", "pd", "evaluate",
             "enable_full_determinism", "pipeline", "Trainer", "EvalPrediction",
             "DistilBertTokenizer", "DistilBertForSequenceClassification",
             "TrainingArguments", "EarlyStoppingCallback", "BatchEncoding",
             "load_dataset", "Dataset", "DatasetDict", "ClassLabel", "LazyBatch",
             "itertools", "mlflow"}
      [] c = "cuda_env" -> {"cuda_install_dir"}
      [] c = "baseline" ->
            {"model_id", "model", "tokenizer", "nlp", "sentences", "results", "sample"}
      [] c = "load_dataset" -> {"name", "ds"}
      [] c = "split" -> {"ds_train_val"}
      [] c = "score_test" -> {"sentences", "df_test", "results"}
      [] c = "results_df" -> {"results_df"}
      [] c = "accuracy" -> {"accuracy"}
      [] c = "accuracy_df" -> {"accuracy_df"}
      [] c = "tokenize" -> {"preprocess_function"}
      [] c = "trainer_setup" ->
            {"metric_choice", "METRIC", "compute_metrics", "args", "trainer"}
      [] c = "predict" -> {"f1_test"}
      [] OTHER -> {}

\* The names a cell reads that it does not bind itself.
CellUses(c) ==
    CASE c = "cuda_env" -> {"nvidia", "os"}
      [] c = "gpu_check" -> {"torch", "enable_full_determinism"}
      [] c = "baseline" ->
            {"DistilBertForSequenceClassification", "DistilBertTokenizer", "pipeline"}
      [] c = "load_dataset" -> {"load_dataset"}
      [] c = "split" -> {"ds"}
      [] c = "score_test" -> {"ds", "pd", "nlp"}
      [] c = "results_df" -> {"pd", "results", "df_test"}
      [] c = "accuracy" -> {"results_df"}
      [] c = "accuracy_df" -> {"pd", "results_df"}
      [] c = "tokenize" ->
            {"DistilBertTokenizer", "LazyBatch", "BatchEncoding", "ds", "partial",
             "tokenizer"}
      [] c = "trainer_setup" ->
            {"evaluate", "EvalPrediction", "np", "mlflow", "TrainingArguments",
             "Trainer", "model", "tokenizer", "ds"}
      [] c = "train" -> {"trainer"}
      [] c = "predict" -> {"trainer", "ds"}
      [] c = "save_model" -> {"trainer"}
      [] OTHER -> {}

\* The cells before c, in order.
CellsBefore(c) == SubSeq(CellOrder, 1, CellIndex(c) - 1)

\* Every name the cells before c bind.
NamesBefore(c) == UNION {CellBinds(CellOrder[i]) : i \in 1 .. (CellIndex(c) - 1)}

data_vars == <<kernel_names, environ, cuda, printed, results, df_test, ds, orig,
               results_df, accuracy, accuracy_df, trainer, model, f1_test, disk>>

other_vars == <<split_vars, count_vars, tok_vars>>

\* An exception that is caught: the run goes on with the next cell.
RaiseCaught(exc, next) ==
    /\ pc' = next
    /\ fault' = exc

\* An exception no cell catches: the run ends at the cell that raised it.
Raise(exc, next) ==
    /\ pc' = "failed"
    /\ fault' = exc

\* The cell ran to its end: the next cell is the one below.
Advance(next) ==
    /\ pc' = next
    /\ fault' = fault

\* Cell c starts: it is the next cell, and every name it reads is bound.
Starts(c) ==
    /\ pc = c
    /\ trace' = Append(trace, c)
    /\ UNCHANGED other_vars

Bound(c) == CellUses(c) \subseteq kernel_names

NameError(c) ==
    /\ Raise("NameError", NextCell(c))
    /\ UNCHANGED data_vars

Binds(c) == kernel_names' = kernel_names \cup CellBinds(c)

\* Cell 2: the imports.  nvidia is not among them.
CellImports ==
    /\ Starts("imports")
    /\ Binds("imports")
    /\ Advance(NextCell("imports"))
    /\ UNCHANGED <<environ, cuda, printed, results, df_test, ds, orig, results_df,
                   accuracy, accuracy_df, trainer, model, f1_test, disk>>

\* Cell 3: LD_LIBRARY_PATH is set to the cuda_runtime/lib/ directory beside
\* nvidia.__file__.
CellCudaEnv ==
    /\ Starts("cuda_env")
    /\ IF ~Bound("cuda_env") THEN NameError("cuda_env")
       ELSE /\ environ' = "nvidia/cuda_runtime/lib/"
            /\ Binds("cuda_env")
            /\ Advance(NextCell("cuda_env"))
            /\ UNCHANGED <<cuda, printed, results, df_test, ds, orig, results_df,
                           accuracy, accuracy_df, trainer, model, f1_test, disk>>

\* Cell 5: one of two messages, then enable_full_determinism(True).
CellGpuCheck ==
    /\ Starts("gpu_check")
    /\ IF ~Bound("gpu_check") THEN NameError("gpu_check")
       ELSE /\ printed' = Append(printed,
                   IF cuda THEN "GPU acceleration is available!"
                   ELSE "GPU acceleration is NOT available!")
            /\ Binds("gpu_check")
            /\ Advance(NextCell("gpu_check"))
            /\ UNCHANGED <<environ, cuda, results, df_test, ds, orig, results_df,
                           accuracy, accuracy_df, trainer, model, f1_test, disk>>

\* Cell 7: the pretrained model and tokenizer are loaded and the four sentences
\* classified; from_pretrained raises when the model cannot be fetched.
CellBaseline ==
    /\ Starts("baseline")
    /\ IF ~Bound("baseline") THEN NameError("baseline")
       ELSE \/ /\ Raise("OSError", NextCell("baseline"))
               /\ UNCHANGED data_vars
            \/ \E out \in NlpOutputs(Len(sentences)) :
                  /\ model' = 0
                  /\ results' = out
                  /\ printed' = Append(printed, "samples")
                  /\ Binds("baseline")
                  /\ Advance(NextCell("baseline"))
                  /\ UNCHANGED <<environ, cuda, df_test, ds, orig, results_df,
                                 accuracy, accuracy_df, trainer, f1_test, disk>>

\* A text of the hub's dataset: its word pieces.
Text(i) == [j \in 1 .. (i % 3) |-> "w"]

\* The train partitions the hub may return: the rows of one label before those
\* of the other.
HubTrainSets ==
    UNION {{[i \in 1 .. n |->
                [id |-> i, content |-> Text(i), label |-> IF i <= k THEN 0 ELSE 1]]
            : k \in 0 .. n} : n \in 0 .. MaxTrain}

\* The test partitions the hub may return.
HubTestSets ==
    UNION {{[i \in 1 .. n |-> [id |-> 100 + i, content |-> Text(i), label |-> y[i]]]
            : y \in [1 .. n -> Labels]} : n \in 0 .. MaxTest}

\* ds.rename_columns({"content": "text"})
RenameColumns(rows) ==
    [i \in 1 .. Len(rows) |->
        [id |-> rows[i].id, text |-> rows[i].content, label |-> rows[i].label]]

\* Cell 9: load_dataset and the column rename; load_dataset raises when the
\* dataset cannot be fetched.
CellLoadDataset ==
    /\ Starts("load_dataset")
    /\ IF ~Bound("load_dataset") THEN NameError("load_dataset")
       ELSE \/ /\ Raise("DatasetLoadError", NextCell("load_dataset"))
               /\ UNCHANGED data_vars
            \/ \E tr \in HubTrainSets, te \in HubTestSets :
                  /\ orig' = [train |-> tr, test |-> te]
                  /\ ds' = [train |-> RenameColumns(tr), test |-> RenameColumns(te)]
                  /\ printed' = Append(printed, "ds")
                  /\ Binds("load_dataset")
                  /\ Advance(NextCell("load_dataset"))
                  /\ UNCHANGED <<environ, cuda, results, df_test, results_df,
                                 accuracy, accuracy_df, trainer, model, f1_test, disk>>

Runs == {1, 2}

\* ds["train"] = ds_train_val["train"]; ds["validation"] = ds_train_val["test"]
Reassign(d, ds_train_val) ==
    IF ~ds_train_val.ok THEN [ok |-> FALSE]
    ELSE [ok |-> TRUE,
          ds |-> [train |-> ds_train_val.train,
                  test |-> d.test,
                  validation |-> ds_train_val.test]]

\* Cell 13: the train partition is split; its train part replaces it and its
\* test part becomes the validation partition.
SplitDataset(d, os_entropy) ==
    Reassign(d, TrainTestSplit(d.train, Seed, os_entropy))

SplitStep(r) ==
    IF ~r.ok
    THEN /\ Raise("ValueError", NextCell("split"))
         /\ UNCHANGED data_vars
    ELSE /\ ds' = r.ds
         /\ printed' = Append(printed, "samples in train, validation, test")
         /\ Binds("split")
         /\ Advance(NextCell("split"))
         /\ UNCHANGED <<environ, cuda, results, df_test, orig, results_df,
                        accuracy, accuracy_df, trainer, model, f1_test, disk>>

CellSplit ==
    /\ Starts("split")
    /\ IF ~Bound("split") THEN NameError("split")
       ELSE SplitStep(SplitDataset(ds, entropy[1]))

\* x[:n]
FirstRows(s, n) == SubSeq(s, 1, Min(n, Len(s)))

\* Cell 15: the first ten rows of the test partition are classified.
CellScoreTest ==
    /\ Starts("score_test")
    /\ IF ~Bound("score_test") THEN NameError("score_test")
       ELSE \E out \in NlpOutputs(Len(FirstRows(ds.test, SliceRows))) :
               /\ df_test' = FirstRows(ds.test, SliceRows)
               /\ results' = out
               /\ Binds("score_test")
               /\ Advance(NextCell("score_test"))
               /\ UNCHANGED <<environ, cuda, printed, ds, orig, results_df,
                              accuracy, accuracy_df, trainer, model, f1_test, disk>>

\* Cell 17: results_df.  A frame made from no results has no columns, and
\* naming its two columns raises ValueError.
CellResultsDf ==
    /\ Starts("results_df")
    /\ IF ~Bound("results_df") THEN NameError("results_df")
       ELSE IF Len(results) = 0
            THEN /\ Raise("ValueError", NextCell("results_df"))
                 /\ UNCHANGED data_vars
            ELSE /\ results_df' = BuildResultsDf(df_test, results)
                 /\ df_test' = [i \in 1 .. Len(df_test) |->
                                   [df_test[i] EXCEPT !.label = ReplaceLabel(@)]]
                 /\ Binds("results_df")
                 /\ Advance(NextCell("results_df"))
                 /\ UNCHANGED <<environ, cuda, printed, results, ds, orig, accuracy,
                                accuracy_df, trainer, model, f1_test, disk>>

\* Cell 19: accuracy, printed with two decimals.
CellAccuracy ==
    /\ Starts("accuracy")
    /\ IF ~Bound("accuracy") THEN NameError("accuracy")
       ELSE LET a == Accuracy(results_df) IN
            IF ~a.ok
            THEN /\ Raise("ZeroDivisionError", NextCell("accuracy"))
                 /\ UNCHANGED data_vars
            ELSE /\ accuracy' = a.value
                 /\ printed' = Append(printed, <<"Accuracy", Format2f(a.value)>>)
                 /\ Binds("accuracy")
                 /\ Advance(NextCell("accuracy"))
                 /\ UNCHANGED <<environ, cuda, results, df_test, ds, orig, results_df,
                                accuracy_df, trainer, model, f1_test, disk>>

\* Cell 21: accuracy_df.
CellAccuracyDf ==
    /\ Starts("accuracy_df")
    /\ IF ~Bound("accuracy_df") THEN NameError("accuracy_df")
       ELSE /\ accuracy_df' = AccuracyDf(results_df)
            /\ Binds("accuracy_df")
            /\ Advance(NextCell("accuracy_df"))
            /\ UNCHANGED <<environ, cuda, printed, results, df_test, ds, orig,
                           results_df, accuracy, trainer, model, f1_test, disk>>

\* Cell 23: ds.map(partial(preprocess_function, tokenizer)) over every split.
CellTokenize ==
    /\ Starts("tokenize")
    /\ IF ~Bound("tokenize") THEN NameError("tokenize")
       ELSE /\ ds' = [sp \in DOMAIN ds |->
                         [i \in 1 .. Len(ds[sp]) |-> MapRow(ds[sp][i])]]
            /\ Binds("tokenize")
            /\ Advance(NextCell("tokenize"))
            /\ UNCHANGED <<environ, cuda, printed, results, df_test, orig, results_df,
                           accuracy, accuracy_df, trainer, model, f1_test, disk>>

\* Cell 25: the metric, the training arguments and the trainer.
CellTrainerSetup ==
    /\ Starts("trainer_setup")
    /\ IF ~Bound("trainer_setup") THEN NameError("trainer_setup")
       ELSE /\ trainer' = NewTrainer(Len(ds.train), Len(ds.validation))
            /\ Binds("trainer_setup")
            /\ Advance(NextCell("trainer_setup"))
            /\ UNCHANGED <<environ, cuda, printed, results, df_test, ds, orig,
                           results_df, accuracy, accuracy_df, model, f1_test, disk>>

\* trainer.train(): the state of the trainer, the checkpoints under
\* output_dir and the weights of the model when training ends.
Train(t, n_gpu, f1s) ==
    LET steps == TotalSteps(t.train_rows, n_gpu)
        st == TrainLoop(1, NumCheckpoints(steps), f1s,
                        [best_metric |-> 0, best_model_checkpoint |-> 0,
                         evals |-> <<>>, checkpoints |-> {}])
    IN [trainer |-> [t EXCEPT !.global_step = steps,
                              !.best_metric = st.best_metric,
                              !.best_model_checkpoint = st.best_model_checkpoint,
                              !.evals = st.evals],
        checkpoints |-> st.checkpoints,
        model |-> FinalWeights(st, steps)]

\* Cell 27: trainer.train(); running out of memory raises.
CellTrain ==
    /\ Starts("train")
    /\ IF ~Bound("train") THEN NameError("train")
       ELSE \/ /\ Raise("OutOfMemoryError", NextCell("train"))
               /\ UNCHANGED data_vars
            \/ LET n_gpu == IF cuda THEN 1 ELSE 0
                   nck == NumCheckpoints(TotalSteps(trainer.train_rows, n_gpu))
               IN \E f1s \in [1 .. nck -> F1Values] :
                     LET r == Train(trainer, n_gpu, f1s) IN
                     /\ trainer' = r.trainer
                     /\ model' = r.model
                     /\ disk' = [disk EXCEPT !.checkpoints = r.checkpoints]
                     /\ Binds("train")
                     /\ Advance(NextCell("train"))
                     /\ UNCHANGED <<environ, cuda, printed, results, df_test, ds,
                                    orig, results_df, accuracy, accuracy_df, f1_test>>

\* Cell 29: the F1 of the model on the test partition.
CellPredict ==
    /\ Starts("predict")
    /\ IF ~Bound("predict") THEN NameError("predict")
       ELSE \E f \in F1Values :
               /\ f1_test' = f
               /\ printed' = Append(printed, <<"F1 on test", f>>)
               /\ Binds("predict")
               /\ Advance(NextCell("predict"))
               /\ UNCHANGED <<environ, cuda, results, df_test, ds, orig, results_df,
                              accuracy, accuracy_df, trainer, model, disk>>

\* trainer.save_model(path): the weights the model holds, written under path
\* (the directory is made when it is missing).
SaveModel(d, path, weights) ==
    [d EXCEPT !.saved = Append(@, [path |-> path, weights |-> weights])]

\* Cell 31: trainer.save_model; a path that cannot be written raises.
CellSaveModel ==
    /\ Starts("save_model")
    /\ IF ~Bound("save_model") THEN NameError("save_model")
       ELSE \/ /\ Raise("OSError", NextCell("save_model"))
               /\ UNCHANGED data_vars
            \/ /\ disk' = SaveModel(disk, ArtifactPath, model)
               /\ Binds("save_model")
               /\ Advance(NextCell("save_model"))
               /\ UNCHANGED <<environ, cuda, printed, results, df_test, ds, orig,
                              results_df, accuracy, accuracy_df, trainer, model,
                              f1_test>>

(***************************************************************************)
(* The run of the notebook from its first cell.                            *)
(***************************************************************************)
NoDisk == [saved |-> <<>>, checkpoints |-> {}]

\* The state of everything but the pipeline: nothing has run.
OthersIdle ==
    /\ split_src = <<>>
    /\ split_runs = [r \in Runs |-> [done |-> FALSE]]
    /\ entropy = [r \in Runs |-> 0]
    /\ cnt_in = [l \in Labels |-> 0]
    /\ cnt_out = [done |-> FALSE]
    /\ tok_text = <<>>
    /\ tok_enc = [done |-> FALSE]

\* A kernel in which no cell has run.  The kernel may bind nvidia before the
\* notebook starts (a startup import); the notebook itself never does.
Init ==
    /\ pc = "imports"
    /\ fault = "none"
    /\ trace = <<>>
    /\ kernel_names \in {{}, {"nvidia"}}
    /\ environ = "unset"
    /\ cuda \in BOOLEAN
    /\ printed = <<>>
    /\ results = <<>>
    /\ df_test = <<>>
    /\ ds = <<>>
    /\ orig = <<>>
    /\ results_df = <<>>
    /\ accuracy = <<>>
    /\ accuracy_df = {}
    /\ trainer = NoTrainer
    /\ model = -1
    /\ f1_test = -1
    /\ disk = NoDisk
    /\ OthersIdle

Next ==
    \/ CellImports
    \/ CellCudaEnv
    \/ CellGpuCheck
    \/ CellBaseline
    \/ CellLoadDataset
    \/ CellSplit
    \/ CellScoreTest
    \/ CellResultsDf
    \/ CellAccuracy
    \/ CellAccuracyDf
    \/ CellTokenize
    \/ CellTrainerSetup
    \/ CellTrain
    \/ CellPredict
    \/ CellSaveModel

Spec == Init /\ [][Next]_vars

(***************************************************************************)
(* The scorer alone: cells 17, 19 and 21 on a synthetic slice.             *)
(***************************************************************************)
\* The state of the pipeline's variables when cell c is the next to run and
\* the cells before it ran without raising.
Reached(c) ==
    /\ pc = c
    /\ fault = "none"
    /\ trace = CellsBefore(c)
    /\ kernel_names = NamesBefore(c) \cup {"nvidia"}
    /\ environ = "nvidia/cuda_runtime/lib/"
    /\ cuda \in BOOLEAN
    /\ printed = <<>>
    /\ orig = <<>>
    /\ f1_test = -1
    /\ disk = NoDisk

\* A slice of n rows of the test partition.
Slices(n) ==
    {[i \in 1 .. n |-> [id |-> 100 + i, text |-> Text(i), label |-> y[i]]]
     : y \in [1 .. n -> Labels]}

\* Cell 17 is next: any slice of at most MaxRows rows, any predictions for it.
ScorerInitSlice ==
    /\ Reached("results_df")
    /\ \E n \in 0 .. MaxRows :
          /\ df_test \in Slices(n)
          /\ results \in NlpOutputs(n)
    /\ ds = [test |-> df_test]
    /\ results_df = <<>>
    /\ accuracy = <<>>
    /\ accuracy_df = {}
    /\ trainer = NoTrainer
    /\ model = 0
    /\ OthersIdle

\* Cell 19 is next, given a frame with the columns of results_df and no rows.
ScorerInitEmptyFrame ==
    /\ Reached("accuracy")
    /\ df_test = <<>>
    /\ results = <<>>
    /\ ds = [test |-> <<>>]
    /\ results_df = <<>>
    /\ accuracy = <<>>
    /\ accuracy_df = {}
    /\ trainer = NoTrainer
    /\ model = 0
    /\ OthersIdle

ScorerInit == ScorerInitSlice \/ ScorerInitEmptyFrame

ScorerNext == CellResultsDf \/ CellAccuracy \/ CellAccuracyDf

ScorerSpec == ScorerInit /\ [][ScorerNext]_vars

(***************************************************************************)
(* The trainer alone: cells 27, 29 and 31 on a train partition large       *)
(* enough for checkpoints.  The partitions are not held: the trainer reads *)
(* their sizes.                                                            *)
(***************************************************************************)
\* The rows of the hub's train partition: enough for at most MaxCkpt checkpoints.
TrainSpecRows == {r * (20 * SaveSteps) : r \in 1 .. (2 * MaxCkpt + 1)}

TrainInit ==
    /\ Reached("train")
    /\ \E n \in TrainSpecRows : trainer = NewTrainer(TrainRows(n), TestRows(n))
    /\ df_test = <<>>
    /\ results = <<>>
    /\ ds = <<>>
    /\ results_df = <<>>
    /\ accuracy = <<>>
    /\ accuracy_df = {}
    /\ model = 0
    /\ OthersIdle

TrainNext == CellTrain \/ CellPredict \/ CellSaveModel

TrainSpec == TrainInit /\ [][TrainNext]_vars

(***************************************************************************)
(* The splitter alone, run twice on the same source partition.             *)
(***************************************************************************)
\* The pipeline's variables while something else is run alone.
PipelineIdle ==
    /\ pc = "idle"
    /\ fault = "none"
    /\ trace = <<>>
    /\ kernel_names = {}
    /\ environ = "unset"
    /\ cuda = FALSE
    /\ printed = <<>>
    /\ results = <<>>
    /\ df_test = <<>>
    /\ ds = <<>>
    /\ orig = <<>>
    /\ results_df = <<>>
    /\ accuracy = <<>>
    /\ accuracy_df = {}
    /\ trainer = NoTrainer
    /\ model = -1
    /\ f1_test = -1
    /\ disk = NoDisk

SplitSources ==
    UNION {{[i \in 1 .. n |-> [id |-> i, text |-> Text(i), label |-> y[i]]]
            : y \in [1 .. n -> Labels]} : n \in 0 .. MaxSplit}

SplitInit ==
    /\ PipelineIdle
    /\ split_src \in SplitSources
    /\ split_runs = [r \in Runs |-> [done |-> FALSE]]
    /\ entropy \in [Runs -> {1, 2}]
    /\ cnt_in = [l \in Labels |-> 0]
    /\ cnt_out = [done |-> FALSE]
    /\ tok_text = <<>>
    /\ tok_enc = [done |-> FALSE]

\* One run of the splitter: the process's entropy is its own.
SplitRun(r) ==
    /\ ~split_runs[r].done
    /\ split_runs' = [split_runs EXCEPT ![r] =
                         [done |-> TRUE,
                          split |-> TrainTestSplit(split_src, Seed, entropy[r])]]
    /\ UNCHANGED <<pipeline_vars, split_src, entropy, count_vars, tok_vars>>

SplitNext == \E r \in Runs : SplitRun(r)

SplitSpec == SplitInit /\ [][SplitNext]_vars

(***************************************************************************)
(* The sizes the splitter gives the partitions, from the rows per label.   *)
(***************************************************************************)
CountInit ==
    /\ PipelineIdle
    /\ split_src = <<>>
    /\ split_runs = [r \in Runs |-> [done |-> FALSE]]
    /\ entropy = [r \in Runs |-> 0]
    /\ \E n \in (0 .. MaxCount) \cup {1000} :
          \E c0 \in 0 .. n : cnt_in = [l \in Labels |-> IF l = 0 THEN c0 ELSE n - c0]
    /\ cnt_out = [done |-> FALSE]
    /\ tok_text = <<>>
    /\ tok_enc = [done |-> FALSE]

\* The rows per class of a label column: a class is a label that occurs.
PresentCounts(counts) == [c \in {l \in DOMAIN counts : counts[l] > 0} |-> counts[c]]

CountSplit ==
    /\ ~cnt_out.done
    /\ cnt_out' = [done |-> TRUE,
                   counts |-> StratifiedCounts(PresentCounts(cnt_in),
                                  TrainRows(SumOver(cnt_in, Labels)),
                                  TestRows(SumOver(cnt_in, Labels)),
                                  SplitGenerator(Seed, 0))]
    /\ UNCHANGED <<pipeline_vars, split_vars, cnt_in, tok_vars>>

CountSpec == CountInit /\ [][CountSplit]_vars

(***************************************************************************)
(* The tokenizer alone, on a text of any length.                           *)
(***************************************************************************)
TokInit ==
    /\ PipelineIdle
    /\ split_src = <<>>
    /\ split_runs = [r \in Runs |-> [done |-> FALSE]]
    /\ entropy = [r \in Runs |-> 0]
    /\ cnt_in = [l \in Labels |-> 0]
    /\ cnt_out = [done |-> FALSE]
    /\ \E n \in 0 .. MaxText : tok_text = [j \in 1 .. n |-> "w"]
    /\ tok_enc = [done |-> FALSE]

Tokenize ==
    /\ ~tok_enc.done
    /\ tok_enc' = [done |-> TRUE, enc |-> preprocess_function(tok_text)]
    /\ UNCHANGED <<pipeline_vars, split_vars, count_vars, tok_text>>

TokSpec == TokInit /\ [][Tokenize]_vars

(***************************************************************************)
(* What the claims speak of.                                               *)
(***************************************************************************)
\* Cell c has been started.
Ran(c) == c \in Range(trace)

\* The run ended in cell c, which raised.
FailedAt(c) == pc = "failed" /\ trace # <<>> /\ trace[Len(trace)] = c

\* Cell c ran to its end.
Completed(c) == Ran(c) /\ ~FailedAt(c)

\* The evaluated slice as the test partition holds it (labels 0 and 1).
Slice == FirstRows(ds.test, SliceRows)

\* The rows of the slice whose true label is L, and those of them predicted L.
RowsOf(L) == {i \in DOMAIN Slice : id2label[Slice[i].label] = L}

HitsOf(L) == {i \in RowsOf(L) : results[i].label = L}

AllHits == {i \in DOMAIN Slice : results[i].label = id2label[Slice[i].label]}

\* The rows of accuracy_df for label L.
ReportOf(L) == {row \in accuracy_df : row.Label = L}

Abs(x) == IF x < 0 THEN -x ELSE x

\* C1 (as claimed): whatever slice the scorer is given, zero rows included, it
\* yields an overall accuracy, equal to (rows predicted right) / (rows), and
\* never a fault.
C1_AccuracyDefinedForAnySlice ==
    (Ran("accuracy") \/ FailedAt("results_df")) =>
        /\ fault = "none"
        /\ Len(accuracy) = 2
        /\ accuracy[1] * Len(Slice) = Cardinality(AllHits) * accuracy[2]

\* C2 (as claimed): the accuracy reported for a label that occurs in the slice
\* is the fraction (rows of the label predicted right) / (rows of the label):
\* 0.50 and 1.00 in the example.
C2_PerLabelAccuracyIsTheFraction ==
    Completed("accuracy_df") =>
        \A L \in LabelNames :
            RowsOf(L) # {} =>
                \E row \in ReportOf(L) :
                    /\ row.Count = Cardinality(RowsOf(L))
                    /\ row.Accuracy[1] * Cardinality(RowsOf(L))
                          = Cardinality(HitsOf(L)) * row.Accuracy[2]

\* C2 (amended): for every label that occurs in the slice the report has one
\* row; its Count is the number of rows of the label and its Accuracy is the
\* percentage 100 * (rows of the label predicted right) / (rows of the label)
\* rounded to two decimals (50.0 and 100.0 in the example); the overall
\* accuracy is the fraction (rows predicted right) / (rows), 2/3 in the example.
C2_PerLabelAccuracyIsThePercentage ==
    Completed("accuracy_df") =>
        /\ accuracy[1] * Len(Slice) = Cardinality(AllHits) * accuracy[2]
        /\ \A L \in LabelNames :
              RowsOf(L) # {} =>
                  /\ Cardinality(ReportOf(L)) = 1
                  /\ \A row \in ReportOf(L) :
                        /\ row.Count = Cardinality(RowsOf(L))
                        /\ row.Accuracy[2] = 100
                        /\ 2 * Abs(row.Accuracy[1] * Cardinality(RowsOf(L))
                                   - 10000 * Cardinality(HitsOf(L)))
                              <= Cardinality(RowsOf(L))

\* The example of the claim: (true, predicted) = (pos, pos), (neg, pos), (neg, neg).
ExampleSlice ==
    /\ Len(Slice) = 3
    /\ <<Slice[1].label, Slice[2].label, Slice[3].label>> = <<1, 0, 0>>
    /\ <<results[1].label, results[2].label, results[3].label>>
          = <<"positive", "positive", "negative">>

C2_Witness ==
    /\ Completed("accuracy_df")
    /\ ExampleSlice
    /\ accuracy = <<2, 3>>
    /\ \E row \in accuracy_df :
          row.Label = "negative" /\ row.Count = 2 /\ row.Accuracy = <<5000, 100>>
    /\ \E row \in accuracy_df :
          row.Label = "positive" /\ row.Count = 1 /\ row.Accuracy = <<10000, 100>>

\* C10 (as claimed): when a label occurs in no row of the slice, its per-label
\* accuracy is a division by zero, a fault or an undefined row of the report,
\* and the label is not just left out.
C10_AbsentLabelDividesByZero ==
    Ran("accuracy_df") =>
        \A L \in LabelNames :
            RowsOf(L) = {} => (fault = "ZeroDivisionError" \/ ReportOf(L) # {})

\* C10 (amended): when a label occurs in no row of a slice that has rows, the
\* per-label report is computed without a fault and has no row for that
\* label; it has rows for the labels that occur and for no other.
C10_AbsentLabelIsLeftOut ==
    Ran("accuracy_df") =>
        /\ fault = "none"
        /\ \A L \in LabelNames : (RowsOf(L) = {}) <=> (ReportOf(L) = {})
        /\ \A row \in accuracy_df : row.Label \in LabelNames

C10_Witness ==
    /\ Completed("accuracy_df")
    /\ Len(Slice) >= 2
    /\ RowsOf("positive") = {}
    /\ ReportOf("positive") = {}
    /\ ReportOf("negative") # {}

\* The ids of the rows of a partition.
Ids(rows) == {rows[i].id : i \in DOMAIN rows}

\* A row of a partition as the hub gave it: its id, content and label.
HubRow(row) == [id |-> row.id, content |-> row.text, label |-> row.label]

HubRows(rows) == {HubRow(rows[i]) : i \in DOMAIN rows}

\* C3: once the split step has run, in every later state, the new train and
\* validation partitions are disjoint and hold between them exactly the rows of
\* the original train partition, each once, and the test partition holds
\* exactly the rows of the original test partition, in their order.
C3_ValidationCarvedFromTrainOnly ==
    Completed("split") =>
        /\ Ids(ds.train) \cap Ids(ds.validation) = {}
        /\ HubRows(ds.train) \cup HubRows(ds.validation) = Range(orig.train)
        /\ Len(ds.train) + Len(ds.validation) = Len(orig.train)
        /\ Len(ds.test) = Len(orig.test)
        /\ \A i \in DOMAIN ds.test : HubRow(ds.test[i]) = orig.test[i]

C3_Witness ==
    /\ pc = "done"
    /\ Len(ds.validation) >= 2
    /\ Len(ds.test) >= 1
    /\ {ds.train[i].label : i \in DOMAIN ds.train} = Labels
    /\ Ran("tokenize")

\* C8: a cell that raises ends the run: the fault is not caught, the failed
\* cell is the last cell that ran, no cell ran twice, and after a failed
\* training step nothing is written at the artifact path.
C8_FailureEndsTheRun ==
    /\ trace = SubSeq(CellOrder, 1, Len(trace))
    /\ (fault # "none") <=> (pc = "failed")
    /\ pc = "failed" => trace # <<>>
    /\ pc \in Cells => trace = CellsBefore(pc)
    /\ FailedAt("train") => disk.saved = <<>>
    /\ disk.saved # <<>> => Completed("train")

C8_Witness ==
    /\ FailedAt("train")
    /\ fault = "OutOfMemoryError"
    /\ disk.saved = <<>>
    /\ Len(ds.train) >= 9

\* C9 (as claimed): in a run from the first cell the environment steps never
\* end the run: once the environment-variable cell has run LD_LIBRARY_PATH
\* names the accelerator runtime's library directory, and the accelerator check
\* prints its message and the run goes on to baseline inference.
C9_EnvironmentStepsNeverHalt ==
    /\ ~FailedAt("cuda_env")
    /\ ~FailedAt("gpu_check")
    /\ Ran("cuda_env") => environ = "nvidia/cuda_runtime/lib/"
    /\ Completed("gpu_check") => pc \in Cells \cup {"done", "failed"}

\* The evaluations whose F1 no other evaluation exceeds.
BestEvals ==
    {i \in DOMAIN trainer.evals :
        \A j \in DOMAIN trainer.evals : trainer.evals[j].f1 <= trainer.evals[i].f1}

\* C7 (as claimed): the artifact is written once, at the fixed path, after
\* training and the test evaluation, and what is written is the checkpoint
\* with the highest F1 among those evaluated during training.
C7_ArtifactIsTheBestCheckpoint ==
    /\ Len(disk.saved) <= 1
    /\ pc = "done" => Len(disk.saved) = 1
    /\ \A i \in DOMAIN disk.saved :
          /\ disk.saved[i].path = ArtifactPath
          /\ Completed("train") /\ Completed("predict")
          /\ \E e \in BestEvals : trainer.evals[e].step = disk.saved[i].weights

\* C7 (amended): the artifact is written once, at the fixed path, after
\* training and the test evaluation; what is written is the checkpoint with the
\* highest F1 among those evaluated during training when training evaluated a
\* checkpoint, and the weights of the last training step when it evaluated none
\* (a run of fewer steps than one checkpoint interval).
C7_ArtifactIsTheBestCheckpointIfAny ==
    /\ Len(disk.saved) <= 1
    /\ pc = "done" => Len(disk.saved) = 1
    /\ \A i \in DOMAIN disk.saved :
          /\ disk.saved[i].path = ArtifactPath
          /\ Completed("train") /\ Completed("predict")
          /\ IF trainer.evals # <<>>
             THEN \E e \in BestEvals : trainer.evals[e].step = disk.saved[i].weights
             ELSE disk.saved[i].weights = trainer.global_step

C7_Witness ==
    /\ pc = "done"
    /\ Len(trainer.evals) >= 3
    /\ disk.saved[1].weights = trainer.evals[2].step
    /\ trainer.evals[2].f1 > trainer.evals[1].f1
    /\ trainer.evals[2].f1 > trainer.evals[3].f1
    /\ disk.saved[1].weights # trainer.global_step

CountRows == SumOver(cnt_in, Labels)

CountTrain == SumOver(cnt_out.counts.n_i, DOMAIN cnt_out.counts.n_i)

CountTest == SumOver(cnt_out.counts.t_i, DOMAIN cnt_out.counts.t_i)

\* C4: a split that succeeds gives validation one tenth of the rows, rounded
\* up, and train the rest: 100 and 900 of 1000; and for every label its rows in
\* validation, and in train, differ by less than one row from its share of the
\* source partition.
C4_SplitIsNinetyTenStratified ==
    (cnt_out.done /\ cnt_out.counts.ok) =>
        /\ CountTrain + CountTest = CountRows
        /\ 10 * CountTest >= CountRows
        /\ 10 * (CountTest - 1) < CountRows
        /\ CountRows = 1000 => (CountTest = 100 /\ CountTrain = 900)
        /\ \A c \in DOMAIN cnt_out.counts.t_i :
              /\ Abs(cnt_out.counts.t_i[c] * CountRows - cnt_in[c] * CountTest)
                    < CountRows
              /\ Abs(cnt_out.counts.n_i[c] * CountRows - cnt_in[c] * CountTrain)
                    < CountRows

C4_Witness ==
    /\ cnt_out.done
    /\ cnt_out.counts.ok
    /\ CountRows = 1000
    /\ cnt_in[0] = 333
    /\ CountTest = 100
    /\ CountTrain = 900

\* C6: the encoding of a text of any length, the empty text and texts longer
\* than the maximum included, has at most 512 tokens, and none of them is
\* padding: a text that fits keeps the length of its own tokens.
C6_TruncatedNeverPadded ==
    tok_enc.done =>
        /\ Len(tok_enc.enc.input_ids) <= 512
        /\ Len(tok_enc.enc.attention_mask) = Len(tok_enc.enc.input_ids)
        /\ \A i \in DOMAIN tok_enc.enc.input_ids : tok_enc.enc.input_ids[i] # "[PAD]"
        /\ Len(tok_text) + 2 <= 512 => Len(tok_enc.enc.input_ids) = Len(tok_text) + 2

C6_Witness ==
    /\ tok_enc.done
    /\ Len(tok_text) > 512
    /\ Len(tok_enc.enc.input_ids) = 512

====
